---- MODULE Spec2Model ----
(***************************************************************************)
(* Model of mcp-git.py: the file collector mCall_CollectFiles and the      *)
(* publish workflow rCall_PushAndPR (create_branch -> push_files ->        *)
(* create_pull_request through an MCP client session).                     *)
(*                                                                         *)
(* Representation.  A path or file name is a sequence of one-character     *)
(* strings.  File bytes are sequences of integers 0..255.  A Python str    *)
(* held in a record's "content" is a sequence of Unicode code points.      *)
(***************************************************************************)
EXTENDS Integers, Sequences, FiniteSets, TLC

VARIABLES
    fs,         \* entries root.rglob("*") yields, in traversal order
    request,    \* the arguments of rCall_PushAndPR
    pc,         \* position of the coroutine
    files,      \* local `files` of rCall_PushAndPR (collector output)
    session,    \* the MultiServerMCPClient context: "none" | "held" | "released"
    releases,   \* number of times __aexit__ has run
    catalog,    \* names of the tools client.get_tools() reports
    calls,      \* remote tool invocations, in the order they were issued
    log,        \* messages printed
    exc,        \* exception in flight / raised to the caller
    result      \* "running" | "returned" | "raised"

vars == <<fs, request, pc, files, session, releases, catalog, calls, log, exc, result>>

----------------------------------------------------------------------------
(* Bounds of the model *)

\* longest remote prefix string drawn as input
MaxPrefixLen == 4
\* longest file content (in bytes) drawn as input
MaxRawLen == 3

----------------------------------------------------------------------------
(* Generic sequence helpers *)

SeqsUpTo(S, n) == UNION {[1..k -> S] : k \in 0..n}

\* sep.join(parts)
RECURSIVE JoinWith(_, _)
JoinWith(parts, sep) ==
    IF parts = <<>> THEN <<>>
    ELSE IF Len(parts) = 1 THEN parts[1]
    ELSE parts[1] \o sep \o JoinWith(Tail(parts), sep)

\* s.split(sep) for a one-character separator
RECURSIVE SplitOn(_, _)
SplitOn(s, sep) ==
    IF \A i \in 1..Len(s) : s[i] # sep THEN <<s>>
    ELSE LET i == CHOOSE j \in 1..Len(s) :
                     s[j] = sep /\ \A k \in 1..(j-1) : s[k] # sep
         IN  <<SubSeq(s, 1, i-1)>> \o SplitOn(SubSeq(s, i+1, Len(s)), sep)

\* s.startswith(p)
StartsWith(s, p) == Len(s) >= Len(p) /\ SubSeq(s, 1, Len(p)) = p

\* index of the last occurrence of c in s, 0 if none (str.rfind, 1-based)
RFind(s, c) ==
    IF \E i \in 1..Len(s) : s[i] = c
    THEN CHOOSE i \in 1..Len(s) : s[i] = c /\ \A k \in (i+1)..Len(s) : s[k] # c
    ELSE 0

----------------------------------------------------------------------------
(* PurePosixPath(remote_prefix) / p.relative_to(root), line 51 *)

\* number of leading "/" of s
LeadingSlashes(s) ==
    IF \A i \in 1..Len(s) : s[i] = "/" THEN Len(s)
    ELSE (CHOOSE i \in 1..Len(s) : s[i] # "/" /\ \A k \in 1..(i-1) : s[k] = "/") - 1

\* posix splitroot: exactly two leading slashes are kept, any other number is one
PosixRoot(s) ==
    IF LeadingSlashes(s) = 0 THEN <<>>
    ELSE IF LeadingSlashes(s) = 2 THEN <<"/", "/">>
    ELSE <<"/">>

\* parse_parts: the components of s, empty and "." components dropped
PosixParts(s) ==
    SelectSeq(SplitOn(SubSeq(s, LeadingSlashes(s) + 1, Len(s)), "/"),
              LAMBDA c : c # <<>> /\ c # <<".">>)

\* str() of a PurePosixPath given its root and components
PurePosixStr(root, parts) ==
    IF root = <<>> /\ parts = <<>> THEN <<".">>
    ELSE root \o JoinWith(parts, <<"/">>)

RemotePathMutantConcat(remote_prefix, rel) == remote_prefix \o JoinWith(rel, <<"/">>)

\* remote_path = str(PurePosixPath(remote_prefix) / p.relative_to(root));
\* rel is the component sequence of p.relative_to(root)
RemotePath(remote_prefix, rel) ==
    PurePosixStr(PosixRoot(remote_prefix), PosixParts(remote_prefix) \o rel)

----------------------------------------------------------------------------
(* mimetypes.guess_type(p.name), line 57 *)

\* str.lower() on the characters file names are drawn from
Lower(c) == CASE c = "T" -> "t" [] c = "X" -> "x" [] OTHER -> c

LowerStr(s) == [i \in 1..Len(s) |-> Lower(s[i])]

\* posixpath.splitext of a name without separators: the extension starts at
\* the last dot, unless only dots precede it
SplitExt(name) ==
    LET dot == RFind(name, ".")
    IN  IF dot > 0 /\ \E i \in 1..(dot-1) : name[i] # "."
        THEN [base |-> SubSeq(name, 1, dot-1), ext |-> SubSeq(name, dot, Len(name))]
        ELSE [base |-> name, ext |-> <<>>]

\* mimetypes.suffix_map (the entry the drawn names can hit)
SuffixMap(ext) ==
    IF ext = <<".","t","g","z">> THEN <<".","t","a","r",".","g","z">> ELSE <<>>

\* mimetypes.encodings_map (the entry the drawn names can hit)
EncodingsMap(ext) == IF ext = <<".","g","z">> THEN "gzip" ELSE "none"

\* mimetypes.types_map; <<>> stands for "not in the map"
TypesMap(ext) ==
    CASE ext = <<".","t","x","t">> -> <<"t","e","x","t","/","p","l","a","i","n">>
      [] ext = <<".","p","n","g">> -> <<"i","m","a","g","e","/","p","n","g">>
      [] ext = <<".","t","a","r">> -> <<"a","p","p","l","i","c","a","t","i","o","n","/","x","-","t","a","r">>
      [] OTHER -> <<>>

\* while ext.lower() in suffix_map: base, ext = splitext(base + suffix_map[ext])
RECURSIVE ApplySuffixMap(_)
ApplySuffixMap(be) ==
    IF SuffixMap(LowerStr(be.ext)) # <<>>
    THEN ApplySuffixMap(SplitExt(be.base \o SuffixMap(LowerStr(be.ext))))
    ELSE be

\* first component of guess_type's result; <<>> stands for None
GuessMime(name) ==
    LET be  == ApplySuffixMap(SplitExt(name))
        be2 == IF EncodingsMap(be.ext) # "none" THEN SplitExt(be.base) ELSE be
    IN  TypesMap(LowerStr(be2.ext))

\* mime and mime.startswith("text/"), line 59
IsTextMime(mime) == mime # <<>> /\ StartsWith(mime, <<"t","e","x","t","/">>)

----------------------------------------------------------------------------
(* raw.decode("utf-8"), line 61: the strict UTF-8 decoder *)

IsCont(b) == b >= 128 /\ b <= 191

\* length of the well-formed sequence starting at raw[1], 0 if ill-formed
Utf8SeqLen(raw) ==
    LET b1 == raw[1]
        n  == Len(raw)
    IN  IF b1 <= 127 THEN 1
        ELSE IF b1 >= 194 /\ b1 <= 223
             THEN IF n >= 2 /\ IsCont(raw[2]) THEN 2 ELSE 0
        ELSE IF b1 >= 224 /\ b1 <= 239
             THEN IF n >= 3 /\ IsCont(raw[2]) /\ IsCont(raw[3])
                     /\ (b1 = 224 => raw[2] >= 160)
                     /\ (b1 = 237 => raw[2] <= 159)
                  THEN 3 ELSE 0
        ELSE IF b1 >= 240 /\ b1 <= 244
             THEN IF n >= 4 /\ IsCont(raw[2]) /\ IsCont(raw[3]) /\ IsCont(raw[4])
                     /\ (b1 = 240 => raw[2] >= 144)
                     /\ (b1 = 244 => raw[2] <= 143)
                  THEN 4 ELSE 0
        ELSE 0

\* code point of the well-formed sequence of length k starting at raw[1]
Utf8CodePoint(raw, k) ==
    CASE k = 1 -> raw[1]
      [] k = 2 -> (raw[1] - 192) * 64 + (raw[2] - 128)
      [] k = 3 -> (raw[1] - 224) * 4096 + (raw[2] - 128) * 64 + (raw[3] - 128)
      [] k = 4 -> (raw[1] - 240) * 262144 + (raw[2] - 128) * 4096
                  + (raw[3] - 128) * 64 + (raw[4] - 128)

Utf8DecodeMutantLatin1(raw) == [ok |-> TRUE, text |-> raw]

\* raw.decode("utf-8"): ok = FALSE stands for UnicodeDecodeError
RECURSIVE Utf8Decode(_)
Utf8Decode(raw) ==
    IF raw = <<>> THEN [ok |-> TRUE, text |-> <<>>]
    ELSE LET k == Utf8SeqLen(raw)
         IN  IF k = 0 THEN [ok |-> FALSE, text |-> <<>>]
             ELSE LET rest == Utf8Decode(SubSeq(raw, k+1, Len(raw)))
                  IN  IF rest.ok
                      THEN [ok |-> TRUE, text |-> <<Utf8CodePoint(raw, k)>> \o rest.text]
                      ELSE [ok |-> FALSE, text |-> <<>>]

----------------------------------------------------------------------------
(* base64.b64encode(raw).decode(), line 69 *)

\* code point of the i-th character (0..63) of the standard base64 alphabet
B64Char(i) ==
    IF i < 26 THEN 65 + i
    ELSE IF i < 52 THEN 97 + (i - 26)
    ELSE IF i < 62 THEN 48 + (i - 52)
    ELSE IF i = 62 THEN 43
    ELSE 47

\* code point of the padding character "="
B64Pad == 61

RECURSIVE B64Encode(_)
B64Encode(raw) ==
    IF raw = <<>> THEN <<>>
    ELSE IF Len(raw) = 1
         THEN <<B64Char(raw[1] \div 4), B64Char((raw[1] % 4) * 16), B64Pad, B64Pad>>
    ELSE IF Len(raw) = 2
         THEN <<B64Char(raw[1] \div 4),
                B64Char((raw[1] % 4) * 16 + raw[2] \div 16),
                B64Char((raw[2] % 16) * 4), B64Pad>>
    ELSE <<B64Char(raw[1] \div 4),
           B64Char((raw[1] % 4) * 16 + raw[2] \div 16),
           B64Char((raw[2] % 16) * 4 + raw[3] \div 64),
           B64Char(raw[3] % 64)>> \o B64Encode(SubSeq(raw, 4, Len(raw)))

----------------------------------------------------------------------------
(* mCall_CollectFiles, lines 24-73 *)

\* An entry of root.rglob("*"): rel is p.relative_to(root) as its sequence of
\* components, kind says what p.is_file() answers, raw is what p.read_bytes()
\* returns when the file is readable.
Entry(rel, kind, raw, readable) ==
    [rel |-> rel, kind |-> kind, raw |-> raw, readable |-> readable]

\* p.name
Name(e) == e.rel[Len(e.rel)]

\* p.is_file()
IsFile(e) == e.kind = "file"

\* one iteration of the loop body for a readable regular file, lines 50-71
FileRecord(remote_prefix, e) ==
    LET remote_path == RemotePath(remote_prefix, e.rel)
        mime        == GuessMime(Name(e))
        decoded     == Utf8Decode(e.raw)
    IN  IF IsTextMime(mime) /\ decoded.ok
        THEN [path |-> remote_path, content |-> decoded.text]
        ELSE [path     |-> remote_path,
              content  |-> B64Encode(e.raw),
              encoding |-> "base64"]

RECURSIVE CollectMutantSkipUnreadable(_, _)
CollectMutantSkipUnreadable(entries, remote_prefix) ==
    IF entries = <<>> THEN [ok |-> TRUE, files |-> <<>>]
    ELSE LET rest == CollectMutantSkipUnreadable(Tail(entries), remote_prefix)
         IN  IF IsFile(Head(entries)) /\ Head(entries).readable
             THEN [ok |-> TRUE,
                   files |-> <<FileRecord(remote_prefix, Head(entries))>> \o rest.files]
             ELSE rest

\* the loop of lines 46-73 over the entries still to visit; ok = FALSE stands
\* for the exception p.read_bytes() raises on an unreadable file
RECURSIVE mCall_CollectFiles(_, _)
mCall_CollectFiles(entries, remote_prefix) ==
    IF entries = <<>> THEN [ok |-> TRUE, files |-> <<>>]
    ELSE LET e == Head(entries)
         IN  IF ~IsFile(e) THEN mCall_CollectFiles(Tail(entries), remote_prefix)
             ELSE IF ~e.readable THEN [ok |-> FALSE, files |-> <<>>]
             ELSE LET rest == mCall_CollectFiles(Tail(entries), remote_prefix)
                  IN  IF rest.ok
                      THEN [ok |-> TRUE,
                            files |-> <<FileRecord(remote_prefix, e)>> \o rest.files]
                      ELSE [ok |-> FALSE, files |-> <<>>]

----------------------------------------------------------------------------
(* rCall_PushAndPR, lines 79-148 *)

\* the hardcoded repository coordinates, lines 119-120
Owner == "SGCS-Release-Git-Project"
Repo  == "release-collect-game"

\* the three names looked up in tool_map, lines 112-114
RequiredTools == {"create_branch", "push_files", "create_pull_request"}

\* kinds of Exception a tool invocation can raise
ToolErrors == {"AlreadyExists", "Forbidden"}

\* catalogs client.get_tools() may report
Catalogs == SUBSET (RequiredTools \cup {"get_me"})

ResolveToolsMutantLazy(tool_names) == "create_branch" \in tool_names

\* lines 111-114: TRUE iff none of the three subscripts raises KeyError
ResolveTools(tool_names) == RequiredTools \subseteq tool_names

\* the argument dicts of the three ainvoke calls
BranchArgs(req) ==
    [owner |-> Owner, repo |-> Repo, branch |-> req.branch_name, from_branch |-> "main"]

PushArgs(req, fl) ==
    [owner |-> Owner, repo |-> Repo, branch |-> req.branch_name,
     files |-> fl, message |-> req.pr_title]

PullRequestArgs(req) ==
    [owner |-> Owner, repo |-> Repo, title |-> req.pr_title, body |-> req.pr_body,
     head |-> req.branch_name, base |-> "main"]

\* an exception of the given type raised by the given call
Raised(type, at) == [type |-> type, at |-> at]

\* no exception in flight
NoException == Raised("none", "none")

\* a tool invocation that has been issued and not yet answered
Invoke(op, args) == [op |-> op, args |-> args, status |-> "pending"]

\* the last invocation answered with `status`
Answered(cs, status) == [cs EXCEPT ![Len(cs)].status = status]

\* line 94: the collector runs before the session is opened
Start ==
    /\ pc = "start"
    /\ LET r == mCall_CollectFiles(fs, request.my_dir_name)
       IN  IF r.ok
           THEN /\ files' = r.files
                /\ pc' = "aenter"
                /\ UNCHANGED <<exc, result>>
           ELSE /\ pc' = "done"
                /\ exc' = Raised("OSError", "read_bytes")
                /\ result' = "raised"
                /\ UNCHANGED files
    /\ UNCHANGED <<fs, request, session, releases, catalog, calls, log>>

EnterMutantNoRelease ==
    /\ pc = "aenter"
    /\ \E connected \in BOOLEAN, tool_names \in Catalogs :
         IF ~connected
         THEN /\ pc' = "done"
              /\ exc' = Raised("ConnectError", "__aenter__")
              /\ result' = "raised"
              /\ UNCHANGED <<session, catalog, calls>>
         ELSE /\ session' = "held"
              /\ catalog' = tool_names
              /\ IF ResolveTools(tool_names)
                 THEN /\ calls' = <<Invoke("create_branch", BranchArgs(request))>>
                      /\ pc' = "await_branch"
                      /\ UNCHANGED <<exc, result>>
                 ELSE /\ exc' = Raised("KeyError", "tool_map")
                      /\ pc' = "done"
                      /\ result' = "raised"
                      /\ UNCHANGED calls
    /\ UNCHANGED <<fs, request, files, releases, log>>

\* lines 97-123: __aenter__ answers; on success the tools are resolved and
\* create_branch is invoked
Enter ==
    /\ pc = "aenter"
    /\ \E connected \in BOOLEAN, tool_names \in Catalogs :
         IF ~connected
         THEN /\ pc' = "done"
              /\ exc' = Raised("ConnectError", "__aenter__")
              /\ result' = "raised"
              /\ UNCHANGED <<session, catalog, calls>>
         ELSE /\ session' = "held"
              /\ catalog' = tool_names
              /\ IF ResolveTools(tool_names)
                 THEN /\ calls' = <<Invoke("create_branch", BranchArgs(request))>>
                      /\ pc' = "await_branch"
                      /\ UNCHANGED exc
                 ELSE /\ exc' = Raised("KeyError", "tool_map")
                      /\ pc' = "aexit"
                      /\ UNCHANGED calls
              /\ UNCHANGED result
    /\ UNCHANGED <<fs, request, files, releases, log>>

BranchDoneMutantOnlyExists ==
    /\ pc = "await_branch"
    /\ \E outcome \in {"ok"} \cup ToolErrors :
         IF outcome \in {"ok", "AlreadyExists"}
         THEN /\ log' = Append(log, IF outcome = "ok" THEN "branch_created"
                                                      ELSE "branch_exists_continue")
              /\ calls' = Append(Answered(calls, outcome),
                                 Invoke("push_files", PushArgs(request, files)))
              /\ pc' = "await_push"
              /\ UNCHANGED exc
         ELSE /\ calls' = Answered(calls, outcome)
              /\ exc' = Raised(outcome, calls[Len(calls)].op)
              /\ pc' = "aexit"
              /\ UNCHANGED log
    /\ UNCHANGED <<fs, request, files, session, releases, catalog, result>>

\* lines 117-135: create_branch answers; any Exception is swallowed, then
\* push_files is invoked
BranchDone ==
    /\ pc = "await_branch"
    /\ \E outcome \in {"ok"} \cup ToolErrors :
         /\ log' = Append(log, IF outcome = "ok" THEN "branch_created"
                                                 ELSE "branch_exists_continue")
         /\ calls' = Append(Answered(calls, outcome),
                            Invoke("push_files", PushArgs(request, files)))
    /\ pc' = "await_push"
    /\ UNCHANGED <<fs, request, files, session, releases, catalog, exc, result>>

PushDoneMutantRetry ==
    /\ pc = "await_push"
    /\ \E outcome \in {"ok"} \cup ToolErrors :
         IF outcome = "ok"
         THEN /\ calls' = Append(Answered(calls, outcome),
                                 Invoke("create_pull_request", PullRequestArgs(request)))
              /\ pc' = "await_pr"
              /\ UNCHANGED exc
         ELSE IF Len(calls) < 3
         THEN /\ calls' = Append(Answered(calls, outcome),
                                 Invoke("push_files", PushArgs(request, files)))
              /\ UNCHANGED <<pc, exc>>
         ELSE /\ calls' = Answered(calls, outcome)
              /\ exc' = Raised(outcome, calls[Len(calls)].op)
              /\ pc' = "aexit"
    /\ UNCHANGED <<fs, request, files, session, releases, catalog, log, result>>

PushDoneMutantSwallow ==
    /\ pc = "await_push"
    /\ \E outcome \in {"ok"} \cup ToolErrors :
         calls' = Append(Answered(calls, outcome),
                         Invoke("create_pull_request", PullRequestArgs(request)))
    /\ pc' = "await_pr"
    /\ UNCHANGED <<fs, request, files, session, releases, catalog, log, exc, result>>

\* lines 129-145: push_files answers; on success create_pull_request is
\* invoked, an exception leaves the async with block
PushDone ==
    /\ pc = "await_push"
    /\ \E outcome \in {"ok"} \cup ToolErrors :
         IF outcome = "ok"
         THEN /\ calls' = Append(Answered(calls, outcome),
                                 Invoke("create_pull_request", PullRequestArgs(request)))
              /\ pc' = "await_pr"
              /\ UNCHANGED exc
         ELSE /\ calls' = Answered(calls, outcome)
              /\ exc' = Raised(outcome, calls[Len(calls)].op)
              /\ pc' = "aexit"
    /\ UNCHANGED <<fs, request, files, session, releases, catalog, log, result>>

PullRequestDoneMutantSwallow ==
    /\ pc = "await_pr"
    /\ \E outcome \in {"ok"} \cup ToolErrors :
         /\ calls' = Answered(calls, outcome)
         /\ log' = Append(log, "pr_done")
    /\ pc' = "aexit"
    /\ UNCHANGED <<fs, request, files, session, releases, catalog, exc, result>>

PullRequestDoneMutantRollback ==
    /\ pc = "await_pr"
    /\ \E outcome \in {"ok"} \cup ToolErrors :
         IF outcome = "ok"
         THEN /\ calls' = Answered(calls, outcome)
              /\ log' = Append(log, "pr_done")
              /\ UNCHANGED exc
         ELSE /\ calls' = Append(Answered(calls, outcome),
                                 [op |-> "delete_branch", args |-> BranchArgs(request),
                                  status |-> "ok"])
              /\ exc' = Raised(outcome, calls[Len(calls)].op)
              /\ UNCHANGED log
    /\ pc' = "aexit"
    /\ UNCHANGED <<fs, request, files, session, releases, catalog, result>>

\* lines 138-147: create_pull_request answers; on success the final message
\* is printed, an exception leaves the async with block
PullRequestDone ==
    /\ pc = "await_pr"
    /\ \E outcome \in {"ok"} \cup ToolErrors :
         /\ calls' = Answered(calls, outcome)
         /\ IF outcome = "ok"
            THEN /\ log' = Append(log, "pr_done")
                 /\ UNCHANGED exc
            ELSE /\ exc' = Raised(outcome, calls[Len(calls)].op)
                 /\ UNCHANGED log
    /\ pc' = "aexit"
    /\ UNCHANGED <<fs, request, files, session, releases, catalog, result>>

\* the task is cancelled while it awaits a tool: CancelledError is no
\* Exception, so not even the handler of line 125 catches it
Cancel ==
    /\ pc \in {"await_branch", "await_push", "await_pr"}
    /\ calls' = Answered(calls, "cancelled")
    /\ exc' = Raised("CancelledError", calls[Len(calls)].op)
    /\ pc' = "aexit"
    /\ UNCHANGED <<fs, request, files, session, releases, catalog, log, result>>

\* lines 108, 148: __aexit__ releases the session, then the coroutine returns
\* None or re-raises the exception in flight
Exit ==
    /\ pc = "aexit"
    /\ session' = "released"
    /\ releases' = releases + 1
    /\ result' = IF exc = NoException THEN "returned" ELSE "raised"
    /\ pc' = "done"
    /\ UNCHANGED <<fs, request, files, catalog, calls, log, exc>>

\* the shape of the state
TypeOK ==
    /\ pc \in {"start", "aenter", "await_branch", "await_push", "await_pr", "aexit", "done"}
    /\ session \in {"none", "held", "released"}
    /\ releases \in 0..1
    /\ catalog \in Catalogs
    /\ result \in {"running", "returned", "raised"}
    /\ \A i \in 1..Len(calls) :
         /\ calls[i].op \in RequiredTools
         /\ calls[i].status \in {"pending", "ok", "cancelled"} \cup ToolErrors
    /\ \A i \in 1..Len(log) :
         log[i] \in {"branch_created", "branch_exists_continue", "pr_done"}
    /\ \A i \in 1..Len(files) : DOMAIN files[i] \subseteq {"path", "content", "encoding"}

----------------------------------------------------------------------------
(* Inputs *)

\* bytes file contents are drawn from: "h", the two bytes of U+00E9, the
\* three bytes of U+20A9 (E2 82 A9), and FF, which no UTF-8 text contains
ByteAlphabet == {104, 195, 169, 226, 130, 255}

FileNames ==
    { <<"a",".","t","x","t">>,           \* text/plain
      <<"a",".","T","X","T">>,           \* text/plain, by the lower-cased lookup
      <<"b",".","p","n","g">>,           \* image/png
      <<"c">>,                           \* no extension: no type
      <<".","t","x","t">>,               \* leading dot: no extension, no type
      <<"a",".","t","x","t",".","g","z">>, \* text/plain with encoding gzip
      <<"x",".","t","g","z">>,           \* application/x-tar through suffix_map
      <<"d",".","z","z">> }              \* unknown extension: no type

SubDir == <<"s","u","b">>

\* characters remote prefixes are drawn from
PrefixAlphabet == {"a", "/", "."}

Hello == <<104, 104>>
Jpeg  == <<255, 195, 255>>

\* trees with more than one entry
SampleTrees ==
    { << Entry(<<<<"a",".","t","x","t">>>>, "file", Hello, TRUE),
         Entry(<<<<"b",".","p","n","g">>>>, "file", Jpeg, TRUE) >>,
      << Entry(<<SubDir>>, "dir", <<>>, TRUE),
         Entry(<<SubDir, <<"a",".","t","x","t">>>>, "file", Jpeg, TRUE),
         Entry(<<<<"c">>>>, "file", <<>>, TRUE) >>,
      << Entry(<<SubDir>>, "dir", <<>>, TRUE) >> }

\* trees holding a file read_bytes() fails on
UnreadableTrees ==
    { << Entry(<<<<"a",".","t","x","t">>>>, "file", Hello, TRUE),
         Entry(<<SubDir>>, "dir", <<>>, TRUE),
         Entry(<<SubDir, <<"b",".","p","n","g">>>>, "file", Jpeg, FALSE) >>,
      << Entry(<<<<"c">>>>, "file", Hello, FALSE),
         Entry(<<<<"a",".","t","x","t">>>>, "file", Hello, TRUE) >> }

\* every tree of one regular file
SingleFileTrees ==
    { << Entry(<<n>>, "file", raw, TRUE) >> :
        n \in FileNames, raw \in SeqsUpTo(ByteAlphabet, MaxRawLen) }

SamplePrefixes == { <<"a","/">>, <<"a">>, <<>> }

Request(prefix, branch) ==
    [my_dir_name |-> prefix, branch_name |-> branch,
     pr_title |-> "title", pr_body |-> "body"]

InitWith(trees, prefixes, branches) ==
    /\ fs \in trees
    /\ request \in {Request(p, b) : p \in prefixes, b \in branches}
    /\ pc = "start"
    /\ files = <<>>
    /\ session = "none"
    /\ releases = 0
    /\ catalog = {}
    /\ calls = <<>>
    /\ log = <<>>
    /\ exc = NoException
    /\ result = "running"

----------------------------------------------------------------------------
(* The workflow *)

Init == InitWith({<<>>} \cup SampleTrees \cup UnreadableTrees,
                 SamplePrefixes, {"feat", "main"})

Next == Start \/ Enter \/ BranchDone \/ PushDone \/ PullRequestDone \/ Cancel \/ Exit

Spec == Init /\ [][Next]_vars

(* The collector alone, over every single-file tree *)

InitCollect == InitWith({<<>>} \cup SingleFileTrees \cup SampleTrees \cup UnreadableTrees,
                        {<<"a","/">>}, {"feat"})

NextCollect == Start

SpecCollect == InitCollect /\ [][NextCollect]_vars

(* The collector alone, over every remote prefix *)

InitPath == InitWith(SampleTrees \cup UnreadableTrees,
                     SeqsUpTo(PrefixAlphabet, MaxPrefixLen), {"feat"})

NextPath == Start

SpecPath == InitPath /\ [][NextPath]_vars

----------------------------------------------------------------------------
(* Vocabulary of the properties *)

\* the order the workflow is to invoke the tools in
WorkflowOrder == <<"create_branch", "push_files", "create_pull_request">>

\* the i-th invocation was issued and answered with status st
CallIs(i, op, st) == Len(calls) >= i /\ calls[i].op = op /\ calls[i].status = st

\* the i-th invocation was issued and raised a tool error
CallFailed(i, op) ==
    Len(calls) >= i /\ calls[i].op = op /\ calls[i].status \in ToolErrors

\* the regular files of the tree, in traversal order
FileEntries == SelectSeq(fs, LAMBDA e : e.kind = "file")

\* some regular file of the tree cannot be read
UnreadableFile == \E i \in 1..Len(fs) : fs[i].kind = "file" /\ ~fs[i].readable

\* the collector has returned its list
Collected == pc # "start" /\ ~UnreadableFile

\* the file's path relative to the root, "/"-separated
RelString(e) == JoinWith(e.rel, <<"/">>)

\* UTF-8 encoding of a sequence of code points (str.encode("utf-8"))
RECURSIVE Utf8Encode(_)
Utf8Encode(text) ==
    IF text = <<>> THEN <<>>
    ELSE LET c == text[1]
             b == IF c < 128 THEN <<c>>
                  ELSE IF c < 2048 THEN <<192 + (c \div 64), 128 + (c % 64)>>
                  ELSE IF c < 65536
                       THEN <<224 + (c \div 4096), 128 + ((c \div 64) % 64),
                              128 + (c % 64)>>
                  ELSE <<240 + (c \div 262144), 128 + ((c \div 4096) % 64),
                         128 + ((c \div 64) % 64), 128 + (c % 64)>>
         IN  b \o Utf8Encode(Tail(text))

\* the code points whose UTF-8 encoding uses bytes of ByteAlphabet only:
\* "h", U+00C2 (C3 82), U+00E9 (C3 A9), U+2082 (E2 82 82), U+20A9 (E2 82 A9),
\* U+2A42 (E2 A9 82), U+2A69 (E2 A9 A9)
AlphabetCodePoints == {104, 194, 233, 8322, 8361, 10818, 10857}

\* the byte strings that are the UTF-8 encoding of some text
ValidUtf8 ==
    {raw \in {Utf8Encode(t) : t \in SeqsUpTo(AlphabetCodePoints, MaxRawLen)} :
        Len(raw) <= MaxRawLen}

\* the file names whose guessed MIME type starts with "text/"
TextNames ==
    { <<"a",".","t","x","t">>, <<"a",".","T","X","T">>,
      <<"a",".","t","x","t",".","g","z">> }

\* value (0..63) of a base64 character given by its code point, 64 for "="
B64Value(c) ==
    IF c >= 65 /\ c <= 90 THEN c - 65
    ELSE IF c >= 97 /\ c <= 122 THEN c - 97 + 26
    ELSE IF c >= 48 /\ c <= 57 THEN c - 48 + 52
    ELSE IF c = 43 THEN 62
    ELSE IF c = 47 THEN 63
    ELSE 64

\* base64.b64decode of a padded base64 string
RECURSIVE B64Decode(_)
B64Decode(text) ==
    IF Len(text) < 4 THEN <<>>
    ELSE LET v1 == B64Value(text[1])
             v2 == B64Value(text[2])
             v3 == B64Value(text[3])
             v4 == B64Value(text[4])
             b1 == v1 * 4 + v2 \div 16
             b2 == (v2 % 16) * 16 + v3 \div 4
             b3 == (v3 % 4) * 64 + v4
         IN  IF v3 = 64 THEN <<b1>>
             ELSE IF v4 = 64 THEN <<b1, b2>>
             ELSE <<b1, b2, b3>> \o B64Decode(SubSeq(text, 5, Len(text)))

\* the prefix is one for which joining and concatenating agree: it is empty,
\* or it ends with "/", has no "." component and no doubled slash other than
\* exactly two leading ones
ConcatSafe(p) ==
    \/ p = <<>>
    \/ /\ p[Len(p)] = "/"
       /\ \A i \in 1..(Len(p)-1) :
            (p[i] = "/" /\ p[i+1] = "/") => (i = 1 /\ (Len(p) >= 3 => p[3] # "/"))
       /\ \A i \in 1..Len(p) :
            ~(/\ p[i] = "."
              /\ (i = 1 \/ p[i-1] = "/")
              /\ (i = Len(p) \/ p[i+1] = "/"))

----------------------------------------------------------------------------
(* Properties *)

\* C1: the tools are invoked in the order create_branch, push_files,
\* create_pull_request, each at most once; an invocation is issued only after
\* the one before it was answered (returned or raised), and
\* create_pull_request only after push_files returned successfully.
C1_StrictOrder ==
    /\ Len(calls) <= 3
    /\ \A i \in 1..Len(calls) : calls[i].op = WorkflowOrder[i]
    /\ \A i \in 1..(Len(calls) - 1) : calls[i].status # "pending"
    /\ Len(calls) = 3 => calls[2].status = "ok"

C1_Witness ==
    /\ pc = "done"
    /\ CallFailed(1, "create_branch")
    /\ CallIs(2, "push_files", "ok")
    /\ CallFailed(3, "create_pull_request")

\* C2: when create_branch raises an error of any kind the error is not
\* propagated: the continuation message is logged and push_files is invoked
\* with the request's branch name and exactly the list the collector built.
C2_BranchErrorSwallowed ==
    CallFailed(1, "create_branch") =>
        /\ Len(calls) >= 2
        /\ calls[2].op = "push_files"
        /\ calls[2].args.branch = request.branch_name
        /\ calls[2].args.files = files
        /\ files = mCall_CollectFiles(fs, request.my_dir_name).files
        /\ log # <<>> /\ log[1] = "branch_exists_continue"
        /\ exc.at # "create_branch"
        /\ pc = "await_push" => (exc = NoException /\ result = "running")

C2_Witness ==
    /\ CallIs(1, "create_branch", "Forbidden")
    /\ Len(calls) >= 2 /\ calls[2].op = "push_files"
    /\ Len(calls[2].args.files) = 2

\* C3: when push_files raises an error, create_pull_request is never
\* invoked, the final success message is not logged and the error reaches the
\* caller, whether create_branch had succeeded or failed.
C3_PushErrorAborts ==
    CallFailed(2, "push_files") =>
        /\ Len(calls) = 2
        /\ \A i \in 1..Len(log) : log[i] # "pr_done"
        /\ exc = Raised(calls[2].status, "push_files")
        /\ pc \in {"aexit", "done"}
        /\ pc = "done" => result = "raised"

C3_Witness ==
    /\ pc = "done"
    /\ result = "raised"
    /\ CallFailed(1, "create_branch")
    /\ CallFailed(2, "push_files")

\* C4: an acquired session is released exactly once on every exit path; no
\* run ends with the session held, and once the session is released no tool
\* is invoked and no invocation changes.
C4_SessionReleasedOnce ==
    /\ [](/\ releases <= 1
          /\ session = "released" <=> releases = 1
          /\ session = "held" <=> pc \in {"await_branch", "await_push", "await_pr", "aexit"}
          /\ pc = "done" => session # "held")
    /\ [][session = "released" => calls' = calls]_vars

C4_Witness ==
    /\ pc = "done"
    /\ session = "released"
    /\ releases = 1
    /\ exc = Raised("KeyError", "tool_map")

\* C5: when a file of the tree cannot be read the error reaches the caller
\* before the session is opened: no tool has been invoked, nothing is logged.
C5_CollectionErrorFirst ==
    (UnreadableFile /\ pc # "start") =>
        /\ pc = "done"
        /\ result = "raised"
        /\ exc = Raised("OSError", "read_bytes")
        /\ calls = <<>>
        /\ session = "none"
        /\ releases = 0

C5_Witness ==
    /\ UnreadableFile
    /\ pc = "done"
    /\ \E i \in 1..Len(fs) : fs[i].kind = "file" /\ fs[i].readable

\* C6: when create_pull_request raises an error the error reaches the caller
\* and nothing is rolled back: the failed invocation is the last one.
C6_PullRequestErrorNoRollback ==
    \A i \in 1..Len(calls) :
        (calls[i].op = "create_pull_request" /\ calls[i].status \in ToolErrors) =>
            /\ i = Len(calls)
            /\ CallIs(2, "push_files", "ok")
            /\ exc = Raised(calls[i].status, "create_pull_request")
            /\ pc \in {"aexit", "done"}
            /\ pc = "done" => result = "raised"

C6_Witness ==
    /\ pc = "done"
    /\ result = "raised"
    /\ CallFailed(3, "create_pull_request")

\* C7: the run returns normally, and the final message is logged, iff both
\* push_files and create_pull_request succeeded; the outcome of create_branch
\* plays no part.
C7_SuccessIffPushAndPR ==
    LET bothOk == CallIs(2, "push_files", "ok") /\ CallIs(3, "create_pull_request", "ok")
    IN  /\ result = "returned" => pc = "done"
        /\ pc = "done" => (result = "returned" <=> bothOk)
        /\ (\E i \in 1..Len(log) : log[i] = "pr_done") <=> bothOk

C7_Witness ==
    /\ pc = "done"
    /\ result = "returned"
    /\ CallFailed(1, "create_branch")
    /\ log = <<"branch_exists_continue", "pr_done">>

\* C8: the collector emits one record per regular file, in traversal order;
\* a record has no encoding field and a content whose UTF-8 encoding is the
\* file's bytes iff the name's MIME type is text/* and the bytes are valid
\* UTF-8; every other record has encoding "base64" and a content that
\* base64-decodes to the file's bytes.  An empty tree gives an empty list.
C8_RecordPerFile ==
    Collected =>
        /\ result = "running"
        /\ Len(files) = Len(FileEntries)
        /\ fs = <<>> => files = <<>>
        /\ \A i \in 1..Len(files) :
             LET e == FileEntries[i]
                 r == files[i]
             IN  /\ "encoding" \notin DOMAIN r
                      <=> (Name(e) \in TextNames /\ e.raw \in ValidUtf8)
                 /\ "encoding" \notin DOMAIN r => Utf8Encode(r.content) = e.raw
                 /\ "encoding" \in DOMAIN r =>
                      (r.encoding = "base64" /\ B64Decode(r.content) = e.raw)

\* a text-named file with invalid UTF-8 was collected as base64
C8_Witness ==
    /\ Collected
    /\ Len(files) = 1
    /\ Name(FileEntries[1]) \in TextNames
    /\ FileEntries[1].raw = <<104, 195>>
    /\ files[1].encoding = "base64"

\* C9 as stated: for every prefix the record's path is the prefix
\* concatenated with the relative path.
C9_PathIsConcatenation ==
    Collected =>
        \A i \in 1..Len(files) :
            files[i].path = request.my_dir_name \o RelString(FileEntries[i])

\* C9 amended: the path is the prefix joined, as a POSIX path, with the
\* relative path: it always ends with the relative path, and it is the plain
\* concatenation exactly when the prefix is empty or ends with "/" and has no
\* "." component and no doubled slash other than exactly two leading ones.
C9_PathIsPosixJoin ==
    Collected =>
        \A i \in 1..Len(files) :
            LET path == files[i].path
                rel  == RelString(FileEntries[i])
            IN  /\ Len(path) >= Len(rel)
                /\ SubSeq(path, Len(path) - Len(rel) + 1, Len(path)) = rel
                /\ Len(path) > Len(rel) => path[Len(path) - Len(rel)] = "/"
                /\ path = request.my_dir_name \o rel <=> ConcatSafe(request.my_dir_name)

\* a prefix without a trailing slash was joined with a nested file
C9_Witness ==
    /\ Collected
    /\ request.my_dir_name = <<"a">>
    /\ \E i \in 1..Len(files) :
         files[i].path = <<"a","/","s","u","b","/","a",".","t","x","t">>

\* C10: the three tools are resolved before any is invoked: when the catalog
\* lacks one of them the run raises without having invoked any tool, and the
\* session is released.
C10_ResolveBeforeInvoke ==
    (session # "none" /\ ~(RequiredTools \subseteq catalog)) =>
        /\ calls = <<>>
        /\ exc = Raised("KeyError", "tool_map")
        /\ pc \in {"aexit", "done"}
        /\ pc = "done" => (result = "raised" /\ session = "released")

C10_Witness ==
    /\ pc = "done"
    /\ catalog = {"create_branch", "push_files", "get_me"}
    /\ result = "raised"

====
